---------------------------- MODULE Spec2Model ----------------------------
(***************************************************************************)
(* Cart checkout and quote, fulfilment, webhook intake, ticket redemption  *)
(* and the seller's content requests of the VR Theatre server              *)
(* (server/routes.ts over the SqliteStorage class).                        *)
(*                                                                         *)
(* Every HTTP request runs on Node's single thread and yields at each      *)
(* `await`.  A request is a process p whose pc[p] names the storage call   *)
(* (or gateway call) it is suspended on; one action is the completion of   *)
(* that call together with the synchronous code that follows it up to the  *)
(* next await.  An awaited read whose result no other request can change   *)
(* (the SELECT that follows an INSERT/UPDATE of the same row, getSettings  *)
(* before createOrderGroup, getUser) is folded into the neighbouring step. *)
(***************************************************************************)
EXTENDS Integers, Sequences, FiniteSets, TLC

(***************************************************************************)
(* Bounds of the model.                                                    *)
(***************************************************************************)
MaxOrders    == 2      \* rows of the orders table
MaxLines     == 2      \* lines of one cart
MaxSubtotal  == 120    \* largest subtotal fed to the fee calculator alone

Procs      == {"r1", "r2"}                 \* concurrently served requests
ContentIds == {"c1", "c2"}                 \* rows of the contents table
NoContent  == "cX"                         \* an id no contents row has
Tiers      == {"standard", "vip", "premium"}
Methods    == {"stripe", "paypal", "manual"}
Users      == {"none", "u1"}               \* "none": no valid bearer token
Envs       == {"nokey", "key", "key+secret"}

(***************************************************************************)
(* Program constants.                                                      *)
(***************************************************************************)
MinQty == 1    \* routes.ts:712, routes.ts:838
MaxQty == 10   \* routes.ts:712, routes.ts:838

Max(a, b) == IF a >= b THEN a ELSE b
Min(a, b) == IF a <= b THEN a ELSE b

RECURSIVE Pow2(_)
Pow2(k) == IF k = 0 THEN 1 ELSE 2 * Pow2(k - 1)

RECURSIVE Pow2Mod100(_)
Pow2Mod100(k) == IF k = 0 THEN 1 ELSE (2 * Pow2Mod100(k - 1)) % 100

(***************************************************************************)
(* Math.round(n * (p / 100)) for integers n >= 0 and 0 <= p <= 100, in     *)
(* IEEE-754 double arithmetic as JavaScript computes it.                   *)
(*                                                                         *)
(* p/100 lies in the binade [2^-j, 2^-(j-1)) with j = Binade(p); its       *)
(* double is M / 2^(j+52) with M the integer nearest p*2^(j+52)/100, so    *)
(* 100*M - p*2^(j+52) = Resid(p), the signed distance of p*2^(j+52) to the *)
(* nearest multiple of 100.  The product n*(M/2^(j+52)) differs from the   *)
(* real n*p/100 by n*Resid(p)/(100*2^(j+52)).  n*p/100 has at most two     *)
(* decimals, so unless it is a tie K+1/2 the double is on the same side of *)
(* K+1/2 as the real number.  At a tie T = K+1/2, with 2^e <= T < 2^(e+1), *)
(* the doubles next to T are 2^(e-52) apart and T has an even significand: *)
(* the product rounds to a double below T exactly when it is more than     *)
(* 2^(e-53) below T, i.e. when -n*Resid(p) > 100 * 2^(j+e-1); Math.round   *)
(* then yields K, otherwise K+1.                                           *)
(***************************************************************************)
Binade(p) == CHOOSE j \in 0..7 : p * Pow2(j) >= 100 /\ (j = 0 \/ p * Pow2(j - 1) < 100)

Resid(p) ==
  LET q == (p * Pow2Mod100(Binade(p) + 52)) % 100
  IN  IF q < 50 THEN 0 - q ELSE 100 - q

FloorLog2Half(K) == CHOOSE e \in 0..30 : Pow2(e + 1) <= 2 * K + 1 /\ 2 * K + 1 < Pow2(e + 2)

JsRoundPct(n, p) ==
  IF p = 0 \/ n = 0 \/ (n * p) % 100 # 50 THEN (2 * n * p + 100) \div 200
  ELSE LET K == (n * p) \div 100
           j == Binade(p)
           e == IF K = 0 THEN 0 - 1 ELSE FloorLog2Half(K)
       IN  IF 0 - (2 * n * Resid(p)) > 100 * Pow2(j + e) THEN K ELSE K + 1

(***************************************************************************)
(* Number(settings.f || 0): a field the settings JSON lacks counts as 0.   *)
(***************************************************************************)
Field(s, f) == IF f \in DOMAIN s THEN s[f] ELSE 0

(***************************************************************************)
(* The fee / tax breakdown of POST /api/purchase/cart.                     *)
(***************************************************************************)
Breakdown(subtotal, s) ==
  LET serviceFee  == JsRoundPct(subtotal, Field(s, "feePercent")) + Field(s, "feeFixedCents")
      paymentBase == subtotal + serviceFee
      paymentFee  == JsRoundPct(paymentBase, Field(s, "paymentFeePercent"))
                       + Field(s, "paymentFeeFixedCents")
      tax         == JsRoundPct(subtotal + serviceFee + paymentFee, Field(s, "taxPercent"))
  IN  [subtotal |-> subtotal, serviceFee |-> serviceFee, paymentFee |-> paymentFee,
       tax |-> tax, total |-> subtotal + serviceFee + paymentFee + tax]

(***************************************************************************)
(* Math.round(unit * 100) of a DECIMAL price.  A price is held in          *)
(* thousandths of the currency unit; the prices of the model have no       *)
(* thousandths digit 5, where the double product could fall on either side.*)
(***************************************************************************)
unitCents(price) == (price + 5) \div 10

ExampleSettings ==
  [feeFixedCents |-> 100, feePercent |-> 5, paymentFeeFixedCents |-> 0,
   paymentFeePercent |-> 2, taxPercent |-> 22]

VARIABLES
  env,           \* which of STRIPE_SECRET_KEY / STRIPE_WEBHOOK_SECRET are set
  contents,      \* contents table: id -> row
  settings,      \* app_settings.data
  order_groups,  \* order_groups table, id = index
  orders,        \* orders table, id = index
  tickets,       \* tickets table, id = index
  sessions,      \* checkout sessions the gateway has created
  pc,            \* per request: the call it is suspended on
  loc,           \* per request: its local variables
  reply,         \* the HTTP answer sent by the last step, if it sent one
  decrements     \* history: decrementAvailableTickets calls made per order

vars == <<env, contents, settings, order_groups, orders, tickets, sessions,
          pc, loc, reply, decrements>>

InitAvailable == 2     \* availableTickets of the limited content at the start

NoReply == [proc |-> "none", op |-> "none", code |-> 0, msg |-> "none", mail |-> "none",
            content |-> NoContent, ticket |-> 0,
            method |-> "none", orderIds |-> <<>>, groupId |-> 0,
            event |-> "none", sessionId |-> 0, lines |-> <<>>, breakdown |-> <<>>,
            qty |-> 0,
            wrote |-> FALSE, flaw |-> FALSE, flawRaw |-> FALSE, tickets |-> 0]

(***************************************************************************)
(* Local variables of a request.  wrote, flaw and flawRaw are history:     *)
(* whether the request has written to the store, and whether one of its    *)
(* inputs failed validation (as normalised / as sent).                     *)
(***************************************************************************)
NoLoc == [op |-> "none", contentId |-> NoContent, ticketType |-> "none", qty |-> 0,
          method |-> "none", price |-> 0,
          cart |-> <<>>, i |-> 0, lines |-> <<>>, subtotal |-> 0,
          groupId |-> 0, orderIds |-> <<>>, k |-> 0, j |-> 0, issued |-> 0,
          sessionId |-> 0, current |-> 0, ticketId |-> 0, userId |-> "none",
          event |-> "none", breakdown |-> <<>>, data |-> <<>>,
          mail |-> "none", wrote |-> FALSE, flaw |-> FALSE, flawRaw |-> FALSE]

(***************************************************************************)
(* The contents table: c1 sells a limited number of tickets, c2 sells      *)
(* without limit.  Prices are in thousandths of the currency unit.         *)
(***************************************************************************)
ContentRows(avail, std2) ==
  [c \in ContentIds |->
     IF c = "c1"
     THEN [unlimited |-> FALSE, available |-> avail, total |-> avail,
           price |-> [standard |-> 500, vip |-> 1004, premium |-> 2500]]
     ELSE [unlimited |-> TRUE, available |-> 0, total |-> 0,
           price |-> [standard |-> std2, vip |-> 1996, premium |-> 3000]]]

InitWith(avail, std2s, envs, setts) ==
  /\ env \in envs
  /\ contents \in {ContentRows(avail, x) : x \in std2s}
  /\ settings \in setts
  /\ order_groups = <<>>
  /\ orders = <<>>
  /\ tickets = <<>>
  /\ sessions = 0
  /\ pc = [p \in Procs |-> "idle"]
  /\ loc = [p \in Procs |-> NoLoc]
  /\ reply = NoReply
  /\ decrements = <<>>

(***************************************************************************)
(* Ending a request: the answer is sent and the request's slot is free.    *)
(***************************************************************************)
AnswerOf(p, l, code, msg) ==
  [proc |-> p, op |-> l.op, code |-> code, msg |-> msg, mail |-> l.mail,
   content |-> l.contentId, ticket |-> l.ticketId,
   method |-> l.method, orderIds |-> l.orderIds, groupId |-> l.groupId,
   event |-> l.event, sessionId |-> l.sessionId, lines |-> l.lines,
   breakdown |-> l.breakdown, qty |-> l.qty,
   wrote |-> l.wrote, flaw |-> l.flaw, flawRaw |-> l.flawRaw, tickets |-> l.issued]

Finish(p, l, code, msg) ==
  /\ pc' = [pc EXCEPT ![p] = "idle"]
  /\ loc' = [loc EXCEPT ![p] = NoLoc]
  /\ reply' = AnswerOf(p, l, code, msg)

Goto(p, l, label) ==
  /\ pc' = [pc EXCEPT ![p] = label]
  /\ loc' = [loc EXCEPT ![p] = l]
  /\ reply' = NoReply

(***************************************************************************)
(* A new request is served in the first free slot.                         *)
(***************************************************************************)
CanStart(p) == /\ pc[p] = "idle"
               /\ p = "r1" \/ pc["r1"] # "idle"

(***************************************************************************)
(* The order rows that exist or that the requests under way will insert:   *)
(* a checkout is taken up only while the orders table stays within its     *)
(* bound.                                                                  *)
(***************************************************************************)
Pending(p) ==
  IF pc[p] = "p_create" THEN 1
  ELSE IF pc[p] = "c_validate" THEN Len(loc[p].cart)
  ELSE IF pc[p] = "c_group" THEN Len(loc[p].lines)
  ELSE IF pc[p] = "c_order" THEN Len(loc[p].lines) + 1 - loc[p].k
  ELSE 0

Reserved == Len(orders) + Pending("r1") + Pending("r2")

(***************************************************************************)
(* storage.getContentById: the row, or none.                               *)
(***************************************************************************)
getContentById(id) == IF id \in DOMAIN contents THEN {contents[id]} ELSE {}

(***************************************************************************)
(* History only: what the checkout contract calls a failed validation, for *)
(* one line as the request names it.                                       *)
(***************************************************************************)
NamedFlaw(c, t, q) ==
  \/ c \notin DOMAIN contents
  \/ t \notin Tiers
  \/ c \in DOMAIN contents /\ ~contents[c].unlimited /\ q > contents[c].available

(* A faulty variant: the availability check applied to unlimited content too. *)
PurchaseVerdictGateAll(c, t, q, e) ==
  IF q = 0 THEN <<400, "fields_required">>
  ELSE IF q < MinQty \/ q > MaxQty THEN <<400, "invalid_quantity">>
  ELSE IF getContentById(c) = {} THEN <<404, "content_not_found">>
  ELSE IF t \notin Tiers THEN <<400, "invalid_ticket_type">>
  ELSE IF contents[c].available < q THEN <<400, "not_enough_tickets">>
  ELSE IF ~e THEN <<400, "buyer_email_required">>
  ELSE <<200, "ok">>

(***************************************************************************)
(* POST /api/purchase up to createOrder: the checks of the body, the read  *)
(* of the content, the tier, the availability check and the buyer e-mail.  *)
(***************************************************************************)
PurchaseVerdict(c, t, q, e) ==
  IF q = 0 THEN <<400, "fields_required">>
  ELSE IF q < MinQty \/ q > MaxQty THEN <<400, "invalid_quantity">>
  ELSE IF getContentById(c) = {} THEN <<404, "content_not_found">>
  ELSE IF t \notin Tiers THEN <<400, "invalid_ticket_type">>
  ELSE IF ~contents[c].unlimited /\ contents[c].available < q
       THEN <<400, "not_enough_tickets">>
  ELSE IF ~e THEN <<400, "buyer_email_required">>
  ELSE <<200, "ok">>

PurchaseStart(p, c, t, q, m, e) ==
  /\ CanStart(p)
  /\ Reserved + 1 <= MaxOrders
  /\ LET v == PurchaseVerdict(c, t, q, e)
         f == NamedFlaw(c, t, q) \/ ~e
         l == [NoLoc EXCEPT !.op = "purchase", !.contentId = c, !.ticketType = t,
                            !.qty = q, !.method = m, !.flaw = f, !.flawRaw = f]
     IN  IF v[1] # 200
         THEN Finish(p, l, v[1], v[2])
         ELSE Goto(p, [l EXCEPT !.price = unitCents(contents[c].price[t])], "p_create")
  /\ UNCHANGED <<env, contents, settings, order_groups, orders, tickets, sessions,
                 decrements>>

(* A faulty variant: without a gateway key the order is fulfilled at once. *)
PurchaseDispatchUnpaid(p, l) ==
  IF l.method = "stripe" /\ env # "nokey" THEN Goto(p, l, "p_session")
  ELSE IF l.method = "paypal" THEN Finish(p, l, 501, "not_supported")
  ELSE Goto(p, [l EXCEPT !.k = 1], "set_paid")

(***************************************************************************)
(* The dispatch on the payment method after the order exists.              *)
(***************************************************************************)
PurchaseDispatch(p, l) ==
  IF l.method = "stripe"
  THEN IF env = "nokey" THEN Finish(p, l, 503, "stripe_not_configured")
       ELSE Goto(p, l, "p_session")
  ELSE IF l.method = "paypal" THEN Finish(p, l, 501, "not_supported")
  ELSE Goto(p, [l EXCEPT !.k = 1], "set_paid")

createOrder(p) ==
  /\ pc[p] = "p_create"
  /\ LET id == Len(orders) + 1
         r  == loc[p]
         l  == [r EXCEPT !.orderIds = <<id>>, !.wrote = TRUE, !.contentId = NoContent,
                         !.ticketType = "none", !.qty = 0, !.price = 0]
     IN  /\ orders' = Append(orders,
                        [content |-> r.contentId, ticketType |-> r.ticketType,
                         quantity |-> r.qty, total |-> r.price * r.qty,
                         status |-> "pending", session |-> {}, group |-> 0])
         /\ decrements' = Append(decrements, 0)
         /\ PurchaseDispatch(p, l)
  /\ UNCHANGED <<env, contents, settings, order_groups, tickets, sessions>>

(***************************************************************************)
(* stripe.checkout.sessions.create of POST /api/purchase: the gateway      *)
(* answers with a new session, or the call throws (error, timeout).        *)
(***************************************************************************)
(* A faulty variant: a failed gateway call falls through to the manual flow. *)
PurchaseSessionThrewFallsThrough(p) ==
  /\ sessions' = sessions
  /\ Goto(p, [loc[p] EXCEPT !.k = 1], "set_paid")

(* The gateway call threw: the handler's catch answers 500. *)
PurchaseSessionThrew(p) ==
  /\ sessions' = sessions
  /\ Finish(p, loc[p], 500, "purchase_error")

PurchaseSession(p) ==
  /\ pc[p] = "p_session"
  /\ \E ok \in BOOLEAN :
       IF ok
       THEN /\ sessions' = sessions + 1
            /\ Goto(p, [loc[p] EXCEPT !.sessionId = sessions + 1], "p_setsession")
       ELSE PurchaseSessionThrew(p)
  /\ UNCHANGED <<env, contents, settings, order_groups, orders, tickets,
                 decrements>>

setOrderStripeSession(p) ==
  /\ pc[p] = "p_setsession"
  /\ orders' = [orders EXCEPT ![loc[p].orderIds[1]].session = {loc[p].sessionId}]
  /\ Finish(p, loc[p], 200, "checkout_url")
  /\ UNCHANGED <<env, contents, settings, order_groups, tickets, sessions,
                 decrements>>

(***************************************************************************)
(* Fulfilment, as the manual branches of both checkouts and both branches  *)
(* of the webhook run it: for each order of loc.orderIds in turn           *)
(* setOrderPaid, issueTickets, decrementAvailableTickets; then the e-mail. *)
(***************************************************************************)

(* A storage call of the fulfilment threw: the webhook logs it and          *)
(* acknowledges, a checkout answers 500.                                    *)
FulfilThrew(p, l) ==
  IF l.op = "webhook" THEN Finish(p, l, 200, "received")
  ELSE Finish(p, l, 500, "purchase_error")

(* A faulty variant: a failure of the e-mail reaches the handler's catch. *)
MailedUnswallowed(p, l, m) ==
  IF m = "failed" THEN FulfilThrew(p, [l EXCEPT !.mail = m])
  ELSE Finish(p, [l EXCEPT !.mail = m], 200,
              IF l.op = "webhook" THEN "received" ELSE "tickets")

(* try { await sendTicketsEmail(..) } catch {} and the answer: whether the  *)
(* e-mail was sent or failed, the request is answered as a success.         *)
Mailed(p, l, m) ==
  Finish(p, [l EXCEPT !.mail = m], 200,
         IF l.op = "webhook" THEN "received" ELSE "tickets")

(* The e-mail is sent (or fails, which is swallowed) and the answer goes out. *)
FulfilDone(p, l) == \E m \in {"sent", "failed"} : Mailed(p, l, m)

(* After the decrement of one order: the next order of the loop, or the end. *)
NextOrder(p, l) ==
  IF l.k < Len(l.orderIds)
  THEN Goto(p, [l EXCEPT !.k = l.k + 1], "set_paid")
  ELSE FulfilDone(p, l)

(* A faulty variant: an UPDATE that toggles the status. *)
MarkPaidFlip(row) == [row EXCEPT !.status = IF @ = "paid" THEN "pending" ELSE "paid"]

(* UPDATE orders SET status = 'paid' WHERE id = ? : the row afterwards. *)
MarkPaid(row) == [row EXCEPT !.status = "paid"]

setOrderPaid(p) ==
  /\ pc[p] = "set_paid"
  /\ LET id == loc[p].orderIds[loc[p].k]
     IN  /\ orders' = [orders EXCEPT ![id] = MarkPaid(@)]
         /\ Goto(p, [loc[p] EXCEPT !.j = 0, !.wrote = TRUE],
                 IF orders[id].quantity > 0 THEN "issue" ELSE "dec_read")
  /\ UNCHANGED <<env, contents, settings, order_groups, tickets, sessions,
                 decrements>>

(* A faulty variant: the INSERT without the UNIQUE constraint. *)
InsertTicketLax(row) == <<TRUE, Append(tickets, row)>>

(***************************************************************************)
(* INSERT INTO tickets under the UNIQUE constraint on code: the row is     *)
(* stored unless a stored ticket has the code, and then the INSERT fails.  *)
(***************************************************************************)
InsertTicket(row) ==
  IF \E n \in 1..Len(tickets) : tickets[n].code = row.code
  THEN <<FALSE, tickets>>
  ELSE <<TRUE, Append(tickets, row)>>

(***************************************************************************)
(* One round of the loop of issueTickets.  The random code is either one   *)
(* no ticket has (Len(tickets) + 1 stands for all of them) or the code of  *)
(* a stored ticket.                                                        *)
(***************************************************************************)
issueTickets(p) ==
  /\ pc[p] = "issue"
  /\ LET id == loc[p].orderIds[loc[p].k]
         o  == orders[id]
     IN  \E code \in 1..(Len(tickets) + 1) :
           LET ins == InsertTicket([order |-> id, content |-> o.content,
                                    ticketType |-> o.ticketType, code |-> code,
                                    usedAt |-> 0, usedBy |-> "none"])
               l   == [loc[p] EXCEPT !.j = loc[p].j + 1, !.issued = loc[p].issued + 1]
           IN  /\ tickets' = ins[2]
               /\ IF ~ins[1] THEN FulfilThrew(p, loc[p])
                  ELSE Goto(p, l, IF l.j < o.quantity THEN "issue" ELSE "dec_read")
  /\ UNCHANGED <<env, contents, settings, order_groups, orders, sessions,
                 decrements>>

(***************************************************************************)
(* decrementAvailableTickets: the SELECT, and then the UPDATE with the     *)
(* value computed from what the SELECT returned.                           *)
(***************************************************************************)
decrementSelect(p) ==
  /\ pc[p] = "dec_read"
  /\ LET id == loc[p].orderIds[loc[p].k]
         c  == orders[id].content
     IN  /\ decrements' = [decrements EXCEPT ![id] = decrements[id] + 1]
         /\ IF c \notin DOMAIN contents THEN NextOrder(p, loc[p])
            ELSE IF contents[c].unlimited THEN NextOrder(p, loc[p])
            ELSE Goto(p, [loc[p] EXCEPT !.current = contents[c].available], "dec_write")
  /\ UNCHANGED <<env, contents, settings, order_groups, orders, tickets, sessions>>

(* A faulty variant: the difference without the clamp. *)
NextAvailableUnclamped(current, quantity) == current - quantity

(* const next = Math.max(0, current - quantity) *)
NextAvailable(current, quantity) == Max(0, current - quantity)

decrementUpdate(p) ==
  /\ pc[p] = "dec_write"
  /\ LET id == loc[p].orderIds[loc[p].k]
         c  == orders[id].content
     IN  /\ contents' = [contents EXCEPT
                           ![c].available = NextAvailable(loc[p].current, orders[id].quantity)]
         /\ NextOrder(p, loc[p])
  /\ UNCHANGED <<env, settings, order_groups, orders, tickets, sessions,
                 decrements>>

(***************************************************************************)
(* POST /api/purchase/cart.                                                *)
(***************************************************************************)
Line(c, t, q) == [contentId |-> c, ticketType |-> t, quantity |-> q]

(* A faulty variant: the upper clamp alone. *)
ClampQtyNoFloor(q) == Min(MaxQty, IF q = 0 THEN 1 ELSE q)

(* Math.max(1, Math.min(10, Number(it.quantity || 1))) *)
ClampQty(q) == Max(MinQty, Min(MaxQty, IF q = 0 THEN 1 ELSE q))

(* norm: each line with its clamped quantity; raw keeps what was sent (history). *)
Norm(cart) ==
  [n \in 1..Len(cart) |->
     [contentId |-> cart[n].contentId, ticketType |-> cart[n].ticketType,
      quantity |-> ClampQty(cart[n].quantity), raw |-> cart[n].quantity]]

CartStart(p, cart, m, e) ==
  /\ CanStart(p)
  /\ Reserved + Len(cart) <= MaxOrders
  /\ LET l == [NoLoc EXCEPT !.op = "cart", !.method = m, !.cart = Norm(cart),
                            !.i = 1, !.flaw = ~e, !.flawRaw = ~e]
     IN  IF Len(cart) = 0
         THEN Finish(p, [l EXCEPT !.flaw = FALSE, !.flawRaw = FALSE], 400, "cart_empty")
         ELSE IF ~e THEN Finish(p, l, 400, "buyer_email_required")
         ELSE Goto(p, l, "c_validate")
  /\ UNCHANGED <<env, contents, settings, order_groups, orders, tickets, sessions,
                 decrements>>

(* A faulty variant: the unit price, whatever the quantity. *)
totalCentsUnit(uc, q) == uc

(* const totalCents = unitCents * it.quantity *)
totalCents(uc, q) == uc * q

(* A faulty variant: the checks of one line without the availability check. *)
LineVerdictNoStock(it) ==
  IF getContentById(it.contentId) = {} THEN <<404, "content_not_found">>
  ELSE IF it.ticketType \notin Tiers THEN <<400, "invalid_ticket_type">>
  ELSE <<200, "ok">>

(* The checks of one line inside the validation loop, after getContentById. *)
LineVerdict(it) ==
  IF getContentById(it.contentId) = {} THEN <<404, "content_not_found">>
  ELSE IF it.ticketType \notin Tiers THEN <<400, "invalid_ticket_type">>
  ELSE IF ~contents[it.contentId].unlimited
          /\ contents[it.contentId].available < it.quantity
       THEN <<400, "not_enough_tickets">>
  ELSE <<200, "ok">>

CartValidateLine(p) ==
  /\ pc[p] = "c_validate"
  /\ LET it == loc[p].cart[loc[p].i]
         v  == LineVerdict(it)
         l  == [loc[p] EXCEPT
                  !.flaw = @ \/ NamedFlaw(it.contentId, it.ticketType, it.quantity),
                  !.flawRaw = @ \/ NamedFlaw(it.contentId, it.ticketType, it.raw)]
     IN  IF v[1] # 200 THEN Finish(p, [l EXCEPT !.contentId = it.contentId], v[1], v[2])
         ELSE LET uc == unitCents(contents[it.contentId].price[it.ticketType])
                  l2 == [l EXCEPT
                           !.lines = Append(@, [contentId |-> it.contentId,
                                                ticketType |-> it.ticketType,
                                                quantity |-> it.quantity,
                                                unitCents |-> uc,
                                                totalCents |-> totalCents(uc, it.quantity)]),
                           !.subtotal = @ + totalCents(uc, it.quantity),
                           !.i = @ + 1]
              IN  IF l2.i > Len(l2.cart)
                  THEN Goto(p, [l2 EXCEPT !.cart = <<>>, !.i = 0], "c_group")
                  ELSE Goto(p, l2, "c_validate")
  /\ UNCHANGED <<env, contents, settings, order_groups, orders, tickets, sessions,
                 decrements>>

createOrderGroup(p) ==
  /\ pc[p] = "c_group"
  /\ LET b == Breakdown(loc[p].subtotal, settings)
     IN  /\ order_groups' = Append(order_groups,
                              [subtotal |-> b.subtotal, serviceFee |-> b.serviceFee,
                               paymentFee |-> b.paymentFee, tax |-> b.tax,
                               total |-> b.total, status |-> "pending", session |-> {}])
         /\ Goto(p, [loc[p] EXCEPT !.groupId = Len(order_groups) + 1, !.k = 1,
                                   !.subtotal = 0, !.breakdown = <<b>>,
                                   !.wrote = TRUE], "c_order")
  /\ UNCHANGED <<env, contents, settings, orders, tickets, sessions,
                 decrements>>

(* The dispatch on the payment method once every line has its order. *)
CartDispatch(p, l) ==
  IF l.method = "stripe"
  THEN IF env = "nokey" THEN Finish(p, l, 503, "stripe_not_configured")
       ELSE Goto(p, [l EXCEPT !.k = 0], "c_session")
  ELSE Goto(p, [l EXCEPT !.k = 0], "gpaid_group")

createOrderInGroup(p) ==
  /\ pc[p] = "c_order"
  /\ LET line == loc[p].lines[loc[p].k]
         id   == Len(orders) + 1
         l    == [loc[p] EXCEPT !.orderIds = Append(@, id)]
     IN  /\ orders' = Append(orders,
                        [content |-> line.contentId, ticketType |-> line.ticketType,
                         quantity |-> line.quantity, total |-> line.totalCents,
                         status |-> "pending", session |-> {}, group |-> l.groupId])
         /\ decrements' = Append(decrements, 0)
         /\ IF l.k < Len(l.lines) THEN Goto(p, [l EXCEPT !.k = @ + 1], "c_order")
            ELSE CartDispatch(p, l)
  /\ UNCHANGED <<env, contents, settings, order_groups, tickets, sessions>>

(* The INSERT of createOrderInGroup is rejected by the database (disk full, *)
(* database locked): the handler's catch answers 500; nothing is undone.   *)
(* Rejections are taken up only while the order_groups table is within the *)
(* bound of the orders table.                                              *)
createOrderInGroupThrew(p) ==
  /\ pc[p] = "c_order"
  /\ Len(order_groups) < MaxOrders
  /\ Finish(p, loc[p], 500, "cart_purchase_error")
  /\ UNCHANGED <<env, contents, settings, order_groups, orders, tickets, sessions,
                 decrements>>

CartSession(p) ==
  /\ pc[p] = "c_session"
  /\ \E ok \in BOOLEAN :
       IF ok
       THEN /\ sessions' = sessions + 1
            /\ Goto(p, [loc[p] EXCEPT !.sessionId = sessions + 1], "c_setsession")
       ELSE /\ sessions' = sessions
            /\ Finish(p, loc[p], 500, "cart_purchase_error")
  /\ UNCHANGED <<env, contents, settings, order_groups, orders, tickets,
                 decrements>>

setOrderGroupStripeSession(p) ==
  /\ pc[p] = "c_setsession"
  /\ order_groups' = [order_groups EXCEPT ![loc[p].groupId].session = {loc[p].sessionId}]
  /\ Finish(p, loc[p], 200, "checkout_url")
  /\ UNCHANGED <<env, contents, settings, orders, tickets, sessions,
                 decrements>>

(***************************************************************************)
(* setOrderGroupPaid: UPDATE order_groups, and then UPDATE orders.         *)
(***************************************************************************)
getOrdersByGroupId(g) ==
  LET ids == {n \in 1..Len(orders) : orders[n].group = g}
      RECURSIVE Asc(_)
      Asc(S) == IF S = {} THEN <<>>
                ELSE LET n == CHOOSE x \in S : \A y \in S : x <= y
                     IN  <<n>> \o Asc(S \ {n})
  IN  Asc(ids)

setOrderGroupPaid_group(p) ==
  /\ pc[p] = "gpaid_group"
  /\ order_groups' = [order_groups EXCEPT ![loc[p].groupId].status = "paid"]
  /\ Goto(p, [loc[p] EXCEPT !.wrote = TRUE], "gpaid_orders")
  /\ UNCHANGED <<env, contents, settings, orders, tickets, sessions,
                 decrements>>

(* The second UPDATE; the webhook then reads the group's orders, which the  *)
(* cart checkout holds already.                                             *)
setOrderGroupPaid_orders(p) ==
  /\ pc[p] = "gpaid_orders"
  /\ orders' = [n \in 1..Len(orders) |->
                  IF orders[n].group = loc[p].groupId
                  THEN [orders[n] EXCEPT !.status = "paid"] ELSE orders[n]]
  /\ LET l == [loc[p] EXCEPT !.k = 1,
                 !.orderIds = IF loc[p].op = "webhook"
                              THEN getOrdersByGroupId(loc[p].groupId) ELSE @]
     IN  IF l.orderIds = <<>> THEN FulfilDone(p, l) ELSE Goto(p, l, "set_paid")
  /\ UNCHANGED <<env, contents, settings, order_groups, tickets, sessions,
                 decrements>>

(***************************************************************************)
(* POST /api/stripe/webhook.                                               *)
(***************************************************************************)
EventTypes == {"checkout.session.completed", "charge.succeeded"}

(* SELECT * FROM order_groups / orders WHERE stripe_session_id = ? : the ids found. *)
getOrderGroupByStripeSession(sid) ==
  {g \in 1..Len(order_groups) : sid \in order_groups[g].session}

getOrderByStripeSession(sid) ==
  {n \in 1..Len(orders) : sid \in orders[n].session}

(* group && group.status !== 'paid' *)
GroupToFulfil(sid) ==
  {g \in getOrderGroupByStripeSession(sid) : order_groups[g].status # "paid"}

(* order && order.status !== 'paid' *)
OrderToFulfil(sid) ==
  {n \in getOrderByStripeSession(sid) : orders[n].status # "paid"}

(* A faulty variant: every event type is handled as a completed checkout. *)
CompletedAny(type) == TRUE

(* case 'checkout.session.completed' of the switch on event.type *)
Completed(type) == type = "checkout.session.completed"

(* A faulty variant: the signature is not looked at. *)
VerifiedUnsigned(sig) == env = "key+secret"

(* Secret and key are configured and constructEvent accepts the signature. *)
Verified(sig) == env = "key+secret" /\ sig

(* The body is read, the signature verified, the event dispatched; for a   *)
(* completed checkout the order group of the session is looked up.  flaw   *)
(* and flawRaw record that the signature does not verify or that no secret *)
(* is configured; event and sessionId keep what the delivery carried.      *)
WebhookStart(p, sig, type, sid) ==
  /\ CanStart(p)
  /\ LET f == env # "key+secret" \/ ~sig
         l == [NoLoc EXCEPT !.op = "webhook", !.sessionId = sid, !.event = type,
                            !.flaw = f, !.flawRaw = f]
     IN  IF ~Verified(sig) THEN Finish(p, l, 400, "webhook_error")
         ELSE IF ~Completed(type) THEN Finish(p, l, 200, "received")
         ELSE IF GroupToFulfil(sid) # {}
              THEN Goto(p, [l EXCEPT !.groupId = CHOOSE g \in GroupToFulfil(sid) : TRUE],
                        "gpaid_group")
              ELSE Goto(p, l, "w_order")
  /\ UNCHANGED <<env, contents, settings, order_groups, orders, tickets, sessions,
                 decrements>>

(* The fallback to the single-order flow. *)
WebhookOrder(p) ==
  /\ pc[p] = "w_order"
  /\ LET found == OrderToFulfil(loc[p].sessionId)
     IN  IF found # {}
         THEN Goto(p, [loc[p] EXCEPT !.orderIds = <<CHOOSE n \in found : TRUE>>, !.k = 1],
                   "set_paid")
         ELSE Finish(p, loc[p], 200, "received")
  /\ UNCHANGED <<env, contents, settings, order_groups, orders, tickets, sessions,
                 decrements>>

(***************************************************************************)
(* POST /api/redeem over storage.redeemTicket: the SELECT with its three   *)
(* checks, and then the UPDATE.                                            *)
(***************************************************************************)
getTicketByCode(code) == {n \in 1..Len(tickets) : tickets[n].code = code}

(* A faulty variant: the checks of redeemTicket without the one on used_at. *)
RedeemVerdictNoUsedCheck(code, c) ==
  IF getTicketByCode(code) = {} THEN <<400, "ticket_not_found">>
  ELSE IF \E n \in getTicketByCode(code) : tickets[n].content # c
       THEN <<400, "content_mismatch">>
  ELSE <<200, "ok">>

(* The three checks of redeemTicket on the row the SELECT returned. *)
RedeemVerdict(code, c) ==
  IF getTicketByCode(code) = {} THEN <<400, "ticket_not_found">>
  ELSE IF \E n \in getTicketByCode(code) : tickets[n].content # c
       THEN <<400, "content_mismatch">>
  ELSE IF \E n \in getTicketByCode(code) : tickets[n].usedAt # 0
       THEN <<400, "already_used">>
  ELSE <<200, "ok">>

RedeemStart(p, code, c, u) ==
  /\ CanStart(p)
  /\ LET v == RedeemVerdict(code, c)
         l == [NoLoc EXCEPT !.op = "redeem", !.userId = u, !.contentId = c,
                            !.ticketId = IF getTicketByCode(code) = {} THEN 0
                                         ELSE CHOOSE n \in getTicketByCode(code) : TRUE]
     IN  IF v[1] # 200 THEN Finish(p, l, v[1], v[2]) ELSE Goto(p, l, "r_update")
  /\ UNCHANGED <<env, contents, settings, order_groups, orders, tickets, sessions,
                 decrements>>

(* UPDATE tickets SET used_at = datetime('now'), used_by = ? WHERE id = ?  *)
(* used_at is 0 for NULL; otherwise it counts the distinct seconds written *)
(* to it: datetime('now') is the second of the ticket's previous write or  *)
(* a later one.                                                            *)
RedeemUpdate(p) ==
  /\ pc[p] = "r_update"
  /\ LET old == tickets[loc[p].ticketId].usedAt
     IN  \E now \in (IF old = 0 THEN {1} ELSE {old, old + 1}) :
           tickets' = [tickets EXCEPT ![loc[p].ticketId].usedAt = now,
                                      ![loc[p].ticketId].usedBy = loc[p].userId]
  /\ Finish(p, [loc[p] EXCEPT !.wrote = TRUE], 200, "redeemed")
  /\ UNCHANGED <<env, contents, settings, order_groups, orders, sessions,
                 decrements>>

(***************************************************************************)
(* POST /api/purchase/cart/quote: the lines are normalised and priced one  *)
(* by one, without a look at the availability; the breakdown is computed   *)
(* from the settings and returned.                                         *)
(***************************************************************************)
(* A faulty variant: the tax computed on the subtotal alone. *)
QuoteBreakdownTaxOnSubtotal(subtotal, s) ==
  LET serviceFee  == JsRoundPct(subtotal, Field(s, "feePercent")) + Field(s, "feeFixedCents")
      paymentFee  == JsRoundPct(subtotal + serviceFee, Field(s, "paymentFeePercent"))
                       + Field(s, "paymentFeeFixedCents")
      tax         == JsRoundPct(subtotal, Field(s, "taxPercent"))
  IN  [subtotal |-> subtotal, serviceFee |-> serviceFee, paymentFee |-> paymentFee,
       tax |-> tax, total |-> subtotal + serviceFee + paymentFee + tax]

(* The fee / tax breakdown as the quote handler computes it. *)
QuoteBreakdown(subtotal, s) ==
  LET feeFixed    == Field(s, "feeFixedCents")
      feePct      == Field(s, "feePercent")
      payFeeFixed == Field(s, "paymentFeeFixedCents")
      payFeePct   == Field(s, "paymentFeePercent")
      taxPct      == Field(s, "taxPercent")
      serviceFee  == JsRoundPct(subtotal, feePct) + feeFixed
      paymentBase == subtotal + serviceFee
      paymentFee  == JsRoundPct(paymentBase, payFeePct) + payFeeFixed
      tax         == JsRoundPct(subtotal + serviceFee + paymentFee, taxPct)
      total       == subtotal + serviceFee + paymentFee + tax
  IN  [subtotal |-> subtotal, serviceFee |-> serviceFee, paymentFee |-> paymentFee,
       tax |-> tax, total |-> total]

QuoteStart(p, cart) ==
  /\ CanStart(p)
  /\ LET l == [NoLoc EXCEPT !.op = "quote", !.cart = Norm(cart), !.i = 1]
     IN  IF Len(cart) = 0 THEN Finish(p, l, 400, "cart_empty")
         ELSE Goto(p, l, "q_validate")
  /\ UNCHANGED <<env, contents, settings, order_groups, orders, tickets, sessions,
                 decrements>>

(* The checks of one line of a quote, after getContentById. *)
QuoteLineVerdict(it) ==
  IF getContentById(it.contentId) = {} THEN <<404, "content_not_found">>
  ELSE IF it.ticketType \notin Tiers THEN <<400, "invalid_ticket_type">>
  ELSE <<200, "ok">>

(* A faulty variant: the quote stores its breakdown as an order group. *)
QuoteAnswerPersisting(p, l) ==
  /\ Finish(p, l, 200, "breakdown")
  /\ order_groups' = Append(order_groups,
                            [subtotal |-> l.breakdown[1].subtotal,
                             serviceFee |-> l.breakdown[1].serviceFee,
                             paymentFee |-> l.breakdown[1].paymentFee,
                             tax |-> l.breakdown[1].tax, total |-> l.breakdown[1].total,
                             status |-> "pending", session |-> {}])

(* res.json({ breakdown }): the answer of a quote; nothing is stored. *)
QuoteAnswer(p, l) ==
  /\ Finish(p, l, 200, "breakdown")
  /\ order_groups' = order_groups

QuoteLine(p) ==
  /\ pc[p] = "q_validate"
  /\ LET it == loc[p].cart[loc[p].i]
         v  == QuoteLineVerdict(it)
     IN  IF v[1] # 200
         THEN /\ Finish(p, [loc[p] EXCEPT !.contentId = it.contentId], v[1], v[2])
              /\ order_groups' = order_groups
         ELSE LET uc == unitCents(contents[it.contentId].price[it.ticketType])
                  l2 == [loc[p] EXCEPT
                           !.lines = Append(@, [contentId |-> it.contentId,
                                                ticketType |-> it.ticketType,
                                                quantity |-> it.quantity,
                                                unitCents |-> uc,
                                                totalCents |-> totalCents(uc, it.quantity)]),
                           !.subtotal = @ + totalCents(uc, it.quantity),
                           !.i = @ + 1]
              IN  IF l2.i > Len(l2.cart)
                  THEN QuoteAnswer(p, [l2 EXCEPT
                                         !.breakdown = <<QuoteBreakdown(l2.subtotal, settings)>>])
                  ELSE /\ Goto(p, l2, "q_validate")
                       /\ order_groups' = order_groups
  /\ UNCHANGED <<env, contents, settings, orders, tickets, sessions, decrements>>

(***************************************************************************)
(* The seller's requests on the contents table, sent by the owner of the   *)
(* content.  POST /api/contents stores the capacity fields as sent:        *)
(* total_tickets (0 if absent), unlimited_tickets (false if absent) and    *)
(* available_tickets, which if absent (avail = <<>>) is 0 for unlimited    *)
(* content and total_tickets otherwise.  The prices, not sent, are 0.      *)
(***************************************************************************)
NewContentRow(total, unlimited, avail) ==
  [unlimited |-> unlimited,
   available |-> IF avail # <<>> THEN avail[1] ELSE IF unlimited THEN 0 ELSE total,
   total     |-> total,
   price     |-> [standard |-> 0, vip |-> 0, premium |-> 0]]

(* The id is a fresh randomUUID(): one no row of the table has. *)
createContent(p, id, total, unlimited, avail) ==
  /\ CanStart(p)
  /\ id \notin DOMAIN contents
  /\ contents' = [c \in DOMAIN contents \cup {id} |->
                     IF c = id THEN NewContentRow(total, unlimited, avail) ELSE contents[c]]
  /\ Finish(p, [NoLoc EXCEPT !.op = "content_create", !.contentId = id, !.wrote = TRUE],
            201, "created")
  /\ UNCHANGED <<env, settings, order_groups, orders, tickets, sessions, decrements>>

(* PUT /api/contents/:id up to updateContent: the row is read. *)
ContentUpdateStart(p, c, data) ==
  /\ CanStart(p)
  /\ LET l == [NoLoc EXCEPT !.op = "content_update", !.contentId = c, !.data = <<data>>]
     IN  IF getContentById(c) = {} THEN Finish(p, l, 404, "content_not_found")
         ELSE Goto(p, l, "u_write")
  /\ UNCHANGED <<env, contents, settings, order_groups, orders, tickets, sessions,
                 decrements>>

(* UPDATE contents SET <the columns sent> WHERE id = ? : the row afterwards. *)
UpdatedRow(row, data) ==
  [row EXCEPT
     !.available = IF "available_tickets" \in DOMAIN data THEN data["available_tickets"] ELSE @,
     !.total     = IF "total_tickets" \in DOMAIN data THEN data["total_tickets"] ELSE @,
     !.unlimited = IF "unlimited_tickets" \in DOMAIN data
                   THEN data["unlimited_tickets"] # 0 ELSE @]

updateContent(p) ==
  /\ pc[p] = "u_write"
  /\ LET c == loc[p].contentId
     IN  contents' = [x \in DOMAIN contents |->
                        IF x = c THEN UpdatedRow(contents[x], loc[p].data[1]) ELSE contents[x]]
  /\ Finish(p, [loc[p] EXCEPT !.wrote = TRUE], 200, "updated")
  /\ UNCHANGED <<env, settings, order_groups, orders, tickets, sessions, decrements>>

(* DELETE /api/contents/:id up to deleteContent: the row is read. *)
ContentDeleteStart(p, c) ==
  /\ CanStart(p)
  /\ LET l == [NoLoc EXCEPT !.op = "content_delete", !.contentId = c]
     IN  IF getContentById(c) = {} THEN Finish(p, l, 404, "content_not_found")
         ELSE Goto(p, l, "d_write")
  /\ UNCHANGED <<env, contents, settings, order_groups, orders, tickets, sessions,
                 decrements>>

(* DELETE FROM contents WHERE id = ? *)
deleteContent(p) ==
  /\ pc[p] = "d_write"
  /\ contents' = [x \in DOMAIN contents \ {loc[p].contentId} |-> contents[x]]
  /\ Finish(p, [loc[p] EXCEPT !.wrote = TRUE], 200, "deleted")
  /\ UNCHANGED <<env, settings, order_groups, orders, tickets, sessions, decrements>>

(***************************************************************************)
(* The requests a client, the gateway or gate staff may send.  A set of    *)
(* inputs In names the purchase bodies (content, tier, quantity, method,   *)
(* buyer e-mail known), the cart bodies (lines, method, buyer e-mail       *)
(* known), the webhook deliveries (signature verifies, event type) and the *)
(* ticket codes, contents and users of redeem requests that are tried.     *)
(***************************************************************************)
Carts(L) == UNION {[1..n -> L] : n \in 1..MaxLines}

Step(p, In) ==
  \/ \E b \in In.purchase : PurchaseStart(p, b[1], b[2], b[3], b[4], b[5])
  \/ createOrder(p)
  \/ PurchaseSession(p)
  \/ setOrderStripeSession(p)
  \/ \E b \in In.cart : CartStart(p, b[1], b[2], b[3])
  \/ CartValidateLine(p)
  \/ createOrderGroup(p)
  \/ createOrderInGroup(p)
  \/ CartSession(p)
  \/ setOrderGroupStripeSession(p)
  \/ setOrderGroupPaid_group(p)
  \/ setOrderGroupPaid_orders(p)
  \/ setOrderPaid(p)
  \/ issueTickets(p)
  \/ decrementSelect(p)
  \/ decrementUpdate(p)
  \/ \E h \in In.hooks, sid \in 0..sessions : WebhookStart(p, h[1], h[2], sid)
  \/ WebhookOrder(p)
  \/ \E code \in In.codes, c \in In.gates, u \in In.users : RedeemStart(p, code, c, u)
  \/ RedeemUpdate(p)

(***************************************************************************)
(* Requests served concurrently: two request slots, their steps            *)
(* interleaved at every await, over a narrow set of inputs.                *)
(***************************************************************************)
MaxCode == 1           \* ticket codes presented at the gate, besides an unknown one

Narrow ==
  [purchase |-> {"c1"} \X {"standard"} \X {1} \X {"stripe", "manual"} \X {TRUE},
   cart     |-> Carts({Line("c1", "standard", 2), Line("c2", "vip", 0)})
                  \X {"stripe", "manual"} \X {TRUE},
   hooks    |-> {<<TRUE, "checkout.session.completed">>},
   codes    |-> 1..MaxCode,
   gates    |-> {"c1"},
   users    |-> {"u1"}]

Next == \E p \in Procs : Step(p, Narrow)

Init == InitWith(InitAvailable, {0}, {"key+secret"}, {ExampleSettings})

Spec == Init /\ [][Next]_vars

(***************************************************************************)
(* Requests served one after the other: a single request slot, over a wide *)
(* set of inputs, every environment, and a limited content that starts     *)
(* with as many tickets as one cart line can ask for.                      *)
(***************************************************************************)
Wide ==
  [purchase |-> ({"c1", "c2"} \X {"standard"} \X {1} \X Methods \X BOOLEAN)
                  \cup ({"c1", NoContent} \X {"standard", "gold"} \X {0, 1, 11}
                          \X {"manual"} \X {TRUE}),
   cart     |-> ((Carts({Line("c1", "standard", 11), Line("c1", "vip", 1),
                         Line("c2", "premium", 0), Line("c1", "gold", 1),
                         Line(NoContent, "standard", 1)}) \cup {<<>>})
                   \X Methods \X {TRUE})
                  \cup ({<<>>, <<Line("c1", "vip", 1)>>} \X {"manual"} \X {FALSE}),
   hooks    |-> BOOLEAN \X EventTypes,
   codes    |-> 0..MaxCode,
   gates    |-> ContentIds,
   users    |-> Users]

NextSeq == Step("r1", Wide)

InitSeq == InitWith(MaxQty, {0}, Envs, {ExampleSettings})

SpecSeq == InitSeq /\ [][NextSeq]_vars

(***************************************************************************)
(* The fee calculator at work: manual checkouts of a one-line cart of the  *)
(* unlimited content, whose standard price ranges over the subtotals       *)
(* 0..MaxSubtotal cents under every settings document of FeeSettings, and  *)
(* is 35.00 under the settings of the worked example.                      *)
(***************************************************************************)
FeePercents == {0, 5, 29}
PayPercents == {0, 2}
TaxPercents == {0, 22}
FixedCents  == {0, 100}

FeeSettings ==
  [feeFixedCents : FixedCents, feePercent : FeePercents, paymentFeeFixedCents : {0},
   paymentFeePercent : PayPercents, taxPercent : TaxPercents]
    \cup {[feePercent |-> 35], [taxPercent |-> 22]}

FeeCart == <<Line("c2", "standard", 1)>>

NextFee ==
  \/ CartStart("r1", FeeCart, "manual", TRUE)
  \/ CartValidateLine("r1")
  \/ createOrderGroup("r1")
  \/ createOrderInGroup("r1")
  \/ setOrderGroupPaid_group("r1")
  \/ setOrderGroupPaid_orders("r1")
  \/ setOrderPaid("r1")
  \/ issueTickets("r1")
  \/ decrementSelect("r1")

InitFee ==
  \/ InitWith(InitAvailable, {10 * c : c \in 0..MaxSubtotal}, {"key+secret"}, FeeSettings)
  \/ InitWith(InitAvailable, {35000}, {"key+secret"}, {ExampleSettings})

SpecFee == InitFee /\ [][NextFee]_vars

(***************************************************************************)
(* Quotes among checkouts: one request slot serves manual cart checkouts,  *)
(* the other serves quotes while a checkout is under way, their steps      *)
(* interleaved at every await; an INSERT of a child order may be rejected  *)
(* by the database.                                                        *)
(***************************************************************************)
QuoteLines == {Line("c1", "vip", 1), Line("c2", "vip", 0)}

QuoteOnlyLines == {Line("c1", "standard", 11), Line(NoContent, "vip", 1)}

NextQuote ==
  \/ \E cart \in Carts(QuoteLines) \cup {<<>>} \cup {<<x>> : x \in QuoteOnlyLines} :
       QuoteStart("r2", cart)
  \/ QuoteLine("r2")
  \/ \E cart \in Carts(QuoteLines) : CartStart("r1", cart, "manual", TRUE)
  \/ CartValidateLine("r1")
  \/ createOrderGroup("r1")
  \/ createOrderInGroup("r1")
  \/ createOrderInGroupThrew("r1")
  \/ setOrderGroupPaid_group("r1")
  \/ setOrderGroupPaid_orders("r1")
  \/ setOrderPaid("r1")
  \/ issueTickets("r1")
  \/ decrementSelect("r1")
  \/ decrementUpdate("r1")

SpecQuote == Init /\ [][NextQuote]_vars

(***************************************************************************)
(* The seller at work among the buyers: requests served one after the      *)
(* other; the seller creates a content, edits the capacity fields of the   *)
(* limited content and deletes it, while buyers check out (quantities      *)
(* inside and outside 1..10 and absent) and the gateway delivers events.   *)
(***************************************************************************)
NewContentId == "c3"

Quantities == {0 - 1, 0, 1, 11}

CapacityEdits ==
  {[available_tickets |-> 0 - 1], [available_tickets |-> 3], [total_tickets |-> 1],
   [unlimited_tickets |-> 1]}

NextAdmin ==
  \/ \E q \in Quantities, m \in {"stripe", "manual"} :
       PurchaseStart("r1", "c1", "standard", q, m, TRUE)
  \/ createOrder("r1")
  \/ PurchaseSession("r1")
  \/ setOrderStripeSession("r1")
  \/ \E q \in Quantities : CartStart("r1", <<Line("c2", "vip", q)>>, "manual", TRUE)
  \/ CartValidateLine("r1")
  \/ createOrderGroup("r1")
  \/ createOrderInGroup("r1")
  \/ setOrderGroupPaid_group("r1")
  \/ setOrderGroupPaid_orders("r1")
  \/ setOrderPaid("r1")
  \/ issueTickets("r1")
  \/ decrementSelect("r1")
  \/ decrementUpdate("r1")
  \/ \E sid \in 0..sessions : WebhookStart("r1", TRUE, "checkout.session.completed", sid)
  \/ WebhookOrder("r1")
  \/ \E cap \in {<<2, FALSE, <<>> >>, <<2, FALSE, <<3>> >>, <<0, TRUE, <<>> >>} :
       createContent("r1", NewContentId, cap[1], cap[2], cap[3])
  \/ \E c \in {"c1", NoContent}, data \in CapacityEdits : ContentUpdateStart("r1", c, data)
  \/ updateContent("r1")
  \/ \E c \in {"c1", NoContent} : ContentDeleteStart("r1", c)
  \/ deleteContent("r1")

SpecAdmin == Init /\ [][NextAdmin]_vars

(***************************************************************************)
(* What the properties below speak of.                                     *)
(***************************************************************************)
RECURSIVE SumSeq(_)
SumSeq(q) == IF q = <<>> THEN 0 ELSE q[1] + SumSeq(Tail(q))

AllIdle == \A p \in Procs : pc[p] = "idle"

TicketsOf(n) == Cardinality({t \in 1..Len(tickets) : tickets[t].order = n})

TicketsFor(c) == Cardinality({t \in 1..Len(tickets) : tickets[t].content = c})

(* The checkout session an order was paid through: its own, or its group's. *)
SessionOf(n) ==
  IF orders[n].group = 0 THEN orders[n].session ELSE order_groups[orders[n].group].session

(* The order, or the group it belongs to, is marked paid. *)
Settled(n) ==
  IF orders[n].group = 0 THEN orders[n].status = "paid"
  ELSE order_groups[orders[n].group].status = "paid"

(* The quantity the completed decrement calls of the orders of c add up to. *)
Decremented(c) ==
  SumSeq([n \in 1..Len(orders) |->
            IF orders[n].content = c THEN decrements[n] * orders[n].quantity ELSE 0])

(***************************************************************************)
(* C1.  Deliveries handled one after the other: once a verified "checkout  *)
(* completed" event of a session has been handled (in a serial run: the    *)
(* order or group holding the session is paid and no request is under      *)
(* way), every order line of the session has exactly `quantity` tickets    *)
(* and exactly one decrement, however many times the event is delivered    *)
(* again, on the order-group path and on the standalone-order path.        *)
(***************************************************************************)
C1_DeliveredOnce ==
  \A n \in 1..Len(orders) :
    (AllIdle /\ SessionOf(n) # {} /\ Settled(n))
      => (TicketsOf(n) = orders[n].quantity /\ decrements[n] = 1)

(***************************************************************************)
(* C2.  Tickets are never over-issued: the tickets issued for a limited    *)
(* content never exceed the availableTickets it started with.              *)
(***************************************************************************)
C2_NeverOverIssued ==
  \A c \in ContentIds : ~contents[c].unlimited => TicketsFor(c) <= InitAvailable

(***************************************************************************)
(* C3.  Redemption one call after another is single-use: a redeem answer   *)
(* about a stored ticket is a content mismatch that leaves the tickets     *)
(* alone if the content differs from the ticket's; otherwise it is         *)
(* "already used", again leaving the tickets alone, if the ticket has      *)
(* been used; otherwise it is a success that sets used_at.                 *)
(***************************************************************************)
C3_SingleUse ==
  [][\A n \in 1..Len(tickets) :
       (reply'.op = "redeem" /\ reply'.ticket = n) =>
         IF tickets[n].content # reply'.content
         THEN reply'.msg = "content_mismatch" /\ tickets' = tickets
         ELSE IF tickets[n].usedAt # 0
         THEN reply'.msg = "already_used" /\ tickets' = tickets
         ELSE /\ reply'.msg = "redeemed"
              /\ tickets'[n].usedAt # 0
              /\ \A m \in 1..Len(tickets) : m # n => tickets'[m] = tickets[m]]_vars

(* A second redemption of a used ticket at its own content has been refused. *)
C3_Witness ==
  /\ reply.op = "redeem" /\ reply.msg = "already_used"
  /\ reply.ticket # 0
  /\ tickets[reply.ticket].usedAt # 0
  /\ tickets[reply.ticket].content = reply.content

(***************************************************************************)
(* C4.  Inventory never goes negative, under any interleaving of the       *)
(* decrements.                                                             *)
(***************************************************************************)
C4_NonNegative == \A c \in ContentIds : contents[c].available >= 0

(* Decrements of more than the whole stock have completed and it stands at 0. *)
C4_Witness ==
  /\ AllIdle
  /\ Decremented("c1") > InitAvailable
  /\ contents["c1"].available = 0

(***************************************************************************)
(* C5.  Ticket codes are unique: no two stored tickets have the same code, *)
(* whatever code an insertion tried.                                       *)
(***************************************************************************)
C5_UniqueCodes ==
  \A m, n \in 1..Len(tickets) : m # n => tickets[m].code # tickets[n].code

(* A cart checkout stored a ticket and then failed on a ticket whose code    *)
(* was taken.                                                                *)
C5_Witness ==
  /\ reply.op = "cart" /\ reply.code = 500 /\ reply.tickets >= 1
  /\ Len(tickets) >= 1

(***************************************************************************)
(* C6.  A paid order group has only paid orders, in every state any        *)
(* request can see.                                                        *)
(***************************************************************************)
C6_PaidCascade ==
  \A n \in 1..Len(orders) :
    (orders[n].group # 0 /\ order_groups[orders[n].group].status = "paid")
      => orders[n].status = "paid"

(***************************************************************************)
(* C7.  For a paid order group the totals of its orders add up to the      *)
(* group's subtotal, each order's total being its unit price in cents      *)
(* times its quantity, a quantity within 1..10.                            *)
(***************************************************************************)
C7_GroupSubtotal ==
  \A g \in 1..Len(order_groups) :
    order_groups[g].status = "paid" =>
      /\ SumSeq([n \in 1..Len(orders) |->
                   IF orders[n].group = g THEN orders[n].total ELSE 0])
           = order_groups[g].subtotal
      /\ \A n \in 1..Len(orders) :
           orders[n].group = g =>
             /\ orders[n].quantity \in MinQty..MaxQty
             /\ orders[n].total =
                  unitCents(contents[orders[n].content].price[orders[n].ticketType])
                    * orders[n].quantity

(* A paid group of two orders, one of them with a quantity clamped to 10. *)
C7_Witness ==
  \E g \in 1..Len(order_groups) :
    /\ order_groups[g].status = "paid"
    /\ order_groups[g].subtotal > 0
    /\ Cardinality({n \in 1..Len(orders) : orders[n].group = g}) = 2
    /\ \E n \in 1..Len(orders) : orders[n].group = g /\ orders[n].quantity = MaxQty

(***************************************************************************)
(* C8.  The breakdown stored at cart checkout is the reference one:        *)
(* serviceFee = round(subtotal * feePercent / 100) + feeFixedCents,        *)
(* paymentFee = round((subtotal + serviceFee) * paymentFeePercent / 100)   *)
(* + paymentFeeFixedCents, tax = round((subtotal + serviceFee +            *)
(* paymentFee) * taxPercent / 100), total the sum of the four, rounding    *)
(* half up and counting a missing field as 0; equal inputs give equal      *)
(* breakdowns; and 3500 under {100, 5%, 0, 2%, 22%} gives 275 / 76 / 847 / *)
(* 4698.                                                                   *)
(***************************************************************************)
HalfUpPct(n, p) == (n * p + 50) \div 100

Reference(subtotal, s) ==
  LET serviceFee == HalfUpPct(subtotal, Field(s, "feePercent")) + Field(s, "feeFixedCents")
      paymentFee == HalfUpPct(subtotal + serviceFee, Field(s, "paymentFeePercent"))
                      + Field(s, "paymentFeeFixedCents")
      tax        == HalfUpPct(subtotal + serviceFee + paymentFee, Field(s, "taxPercent"))
  IN  [subtotal |-> subtotal, serviceFee |-> serviceFee, paymentFee |-> paymentFee,
       tax |-> tax, total |-> subtotal + serviceFee + paymentFee + tax]

StoredBreakdown(g) ==
  [subtotal |-> order_groups[g].subtotal, serviceFee |-> order_groups[g].serviceFee,
   paymentFee |-> order_groups[g].paymentFee, tax |-> order_groups[g].tax,
   total |-> order_groups[g].total]

C8_ReferenceBreakdown ==
  /\ \A g \in 1..Len(order_groups) :
       StoredBreakdown(g) = Reference(order_groups[g].subtotal, settings)
  /\ \A g, h \in 1..Len(order_groups) :
       order_groups[g].subtotal = order_groups[h].subtotal
         => StoredBreakdown(g) = StoredBreakdown(h)
  /\ \A g \in 1..Len(order_groups) :
       (order_groups[g].subtotal = 3500 /\ settings = ExampleSettings)
         => StoredBreakdown(g) = [subtotal |-> 3500, serviceFee |-> 275, paymentFee |-> 76,
                                  tax |-> 847, total |-> 4698]

(* The worked example has been checked out and stored as the contract has it. *)
C8_Witness ==
  /\ settings = ExampleSettings
  /\ \E g \in 1..Len(order_groups) :
       StoredBreakdown(g) = [subtotal |-> 3500, serviceFee |-> 275, paymentFee |-> 76,
                             tax |-> 847, total |-> 4698]

(***************************************************************************)
(* C9.  A checkout that fails validation creates nothing.  A request of    *)
(* which some input failed validation (field f of its history: "flaw" for  *)
(* the quantity a cart line has after its clamping to 1..10, "flawRaw" for *)
(* the quantity as sent) is rejected with a 4xx answer, has written        *)
(* nothing, and none of its steps changes an order group, order, ticket or *)
(* content row.                                                            *)
(***************************************************************************)
Checkouts == {"purchase", "cart"}

RejectedUnwritten(f) ==
  /\ (reply.op \in Checkouts /\ reply[f]) => (reply.code \in {400, 404} /\ ~reply.wrote)
  /\ \A p \in Procs : loc[p][f] => ~loc[p].wrote

(* C9 as amended: the quantity of a cart line is the one it has after the    *)
(* clamping to 1..10.                                                        *)
C9_FailedCreatesNothing ==
  /\ []RejectedUnwritten("flaw")
  /\ [][(reply'.op \in Checkouts /\ reply'.flaw)
          => UNCHANGED <<order_groups, orders, tickets, contents>>]_vars

(* C9 as stated: the quantity of a cart line is the one the request sent. *)
C9_AsStated == RejectedUnwritten("flawRaw")

(* A cart was rejected for a line whose clamped quantity is above the      *)
(* stock left, and nothing has been written.                               *)
C9_Witness ==
  /\ reply.op = "cart" /\ reply.flaw /\ reply.msg = "not_enough_tickets"
  /\ ~reply.wrote
  /\ order_groups = <<>>

(***************************************************************************)
(* C10.  Status is monotonic: an order or order group that is paid is paid *)
(* in every later state, and pending and paid are the only statuses.       *)
(***************************************************************************)
C10_StatusMonotonic ==
  /\ [](/\ \A n \in 1..Len(orders) : orders[n].status \in {"pending", "paid"}
        /\ \A g \in 1..Len(order_groups) : order_groups[g].status \in {"pending", "paid"})
  /\ [][/\ \A n \in 1..Len(orders) :
            orders[n].status = "paid" => (n <= Len(orders') /\ orders'[n].status = "paid")
        /\ \A g \in 1..Len(order_groups) :
            order_groups[g].status = "paid"
              => (g <= Len(order_groups') /\ order_groups'[g].status = "paid")]_vars

(* A paid order of a paid group has gone through setOrderPaid as well and   *)
(* has its tickets.                                                          *)
C10_Witness ==
  \E n \in 1..Len(orders) :
    /\ orders[n].group # 0
    /\ order_groups[orders[n].group].status = "paid"
    /\ orders[n].status = "paid"
    /\ TicketsOf(n) = orders[n].quantity

(***************************************************************************)
(* C11.  A checkout with an unimplemented payment method (paypal stands    *)
(* for paypal and satispay) that passed validation is answered 501 with    *)
(* the ids of what it created, and never enters fulfilment: its order or   *)
(* group and orders stay pending, without tickets and without decrement.   *)
(***************************************************************************)
Fulfilling == {"gpaid_group", "gpaid_orders", "set_paid", "issue", "dec_read", "dec_write"}

Untouched(n) ==
  orders[n].status = "pending" /\ TicketsOf(n) = 0 /\ decrements[n] = 0

C11_UnsupportedMethod ==
  /\ \A p \in Procs :
       (loc[p].op \in Checkouts /\ loc[p].method = "paypal") => pc[p] \notin Fulfilling
  /\ (reply.op \in Checkouts /\ reply.method = "paypal" /\ reply.wrote) =>
       /\ reply.code = 501
       /\ reply.orderIds # <<>>
       /\ \A i \in 1..Len(reply.orderIds) : Untouched(reply.orderIds[i])
       /\ reply.groupId # 0 => order_groups[reply.groupId].status = "pending"

(* A single purchase by paypal was answered 501 and its order is pending. *)
C11_Witness ==
  /\ reply.op = "purchase" /\ reply.method = "paypal" /\ reply.code = 501
  /\ Len(reply.orderIds) = 1
  /\ Untouched(reply.orderIds[1])

(***************************************************************************)
(* C12.  A stripe checkout never fulfils by itself; when the creation of   *)
(* its gateway session fails (500) or the gateway is not configured (503)  *)
(* the order, or group and orders, it created stay pending without a       *)
(* session, ticket or decrement, and the failing step leaves inventory and *)
(* tickets as they were, so that the checkout can be tried again.          *)
(***************************************************************************)
GatewayFailed(r) ==
  r.op \in Checkouts /\ r.method = "stripe" /\ r.code \in {500, 503}

C12_GatewayFailure ==
  /\ [](/\ \A p \in Procs :
            (loc[p].op \in Checkouts /\ loc[p].method = "stripe") => pc[p] \notin Fulfilling
        /\ GatewayFailed(reply) =>
             /\ reply.orderIds # <<>>
             /\ \A i \in 1..Len(reply.orderIds) :
                  Untouched(reply.orderIds[i]) /\ SessionOf(reply.orderIds[i]) = {}
             /\ reply.groupId # 0 => order_groups[reply.groupId].status = "pending")
  /\ [][GatewayFailed(reply') => UNCHANGED <<contents, tickets>>]_vars

(* The session of a stripe cart checkout could not be created: 500, and    *)
(* the group with its two orders is pending.                               *)
C12_Witness ==
  /\ GatewayFailed(reply) /\ reply.op = "cart" /\ reply.code = 500
  /\ Len(reply.orderIds) = 2
  /\ order_groups[reply.groupId].status = "pending"

(***************************************************************************)
(* C13.  A webhook request whose signature does not verify, or for which   *)
(* no secret is configured, is answered 400 at once and is not processed:  *)
(* it writes nothing, and no order group, order, ticket or content row     *)
(* changes.                                                                *)
(***************************************************************************)
C13_UnverifiedWebhook ==
  /\ [](/\ \A p \in Procs : loc[p].op = "webhook" => ~loc[p].flaw
        /\ (reply.op = "webhook" /\ reply.flaw) => (reply.code = 400 /\ ~reply.wrote))
  /\ [][(reply'.op = "webhook" /\ reply'.flaw)
          => UNCHANGED <<order_groups, orders, tickets, contents>>]_vars

(* A delivery with a bad signature was rejected while a stripe order with a *)
(* session waits for its payment.                                           *)
C13_Witness ==
  /\ env = "key+secret"
  /\ reply.op = "webhook" /\ reply.flaw /\ reply.code = 400
  /\ \E n \in 1..Len(orders) : SessionOf(n) # {} /\ orders[n].status = "pending"

(***************************************************************************)
(* C14.  A failure of the ticket e-mail is swallowed: the request is       *)
(* answered as a success, and every order it fulfilled is paid, has its    *)
(* `quantity` tickets stored and its decrement applied.                    *)
(***************************************************************************)
C14_MailFailureSwallowed ==
  reply.mail = "failed" =>
    /\ reply.code = 200
    /\ reply.orderIds # <<>>
    /\ \A i \in 1..Len(reply.orderIds) :
         LET n == reply.orderIds[i]
         IN  /\ orders[n].status = "paid"
             /\ TicketsOf(n) = orders[n].quantity
             /\ decrements[n] = 1
    /\ reply.tickets = Cardinality({t \in 1..Len(tickets) :
                          \E i \in 1..Len(reply.orderIds) :
                            tickets[t].order = reply.orderIds[i]})

(* The e-mail of a webhook fulfilment failed; the order of the limited     *)
(* content is paid and the stock is down by its quantity.                  *)
C14_Witness ==
  /\ reply.op = "webhook" /\ reply.mail = "failed"
  /\ \E i \in 1..Len(reply.orderIds) :
       /\ orders[reply.orderIds[i]].content = "c1"
       /\ contents["c1"].available < contents["c1"].total

(***************************************************************************)
(* C15.  availableTickets of unlimited content is no admission gate: a     *)
(* checkout rejected before it created anything, on a single purchase of   *)
(* an unlimited content or on a cart line of one, was rejected for its     *)
(* fields, quantity range, tier or missing e-mail, never for availability. *)
(***************************************************************************)
C15_UnlimitedAdmitted ==
  (/\ reply.op \in Checkouts
   /\ reply.code \in {400, 404}
   /\ reply.content \in DOMAIN contents
   /\ contents[reply.content].unlimited)
    => reply.msg \in {"fields_required", "invalid_quantity", "invalid_ticket_type",
                      "buyer_email_required"}

(* Tickets of the unlimited content were bought while its availableTickets is 0. *)
C15_Witness ==
  /\ reply.op \in Checkouts /\ reply.msg = "tickets"
  /\ \E i \in 1..Len(reply.orderIds) :
       /\ orders[reply.orderIds[i]].content = "c2"
       /\ TicketsOf(reply.orderIds[i]) = orders[reply.orderIds[i]].quantity
  /\ contents["c2"].unlimited /\ contents["c2"].available = 0

(***************************************************************************)
(* C16.  Deliveries of one "checkout completed" event handled at the same  *)
(* time fulfil its session once: whatever the interleaving of their reads  *)
(* and writes, an order line paid through a session never has more than    *)
(* `quantity` tickets nor more than one decrement.                         *)
(***************************************************************************)
C16_ConcurrentDeliveries ==
  \A n \in 1..Len(orders) :
    SessionOf(n) # {} => (TicketsOf(n) <= orders[n].quantity /\ decrements[n] <= 1)

(***************************************************************************)
(* C17.  Redemption checks and sets in one step: of the redeem requests    *)
(* racing for one unused code at the ticket's own content exactly one      *)
(* succeeds, so no request is answered as a success for a ticket that is   *)
(* used already when the answer is sent.                                   *)
(***************************************************************************)
C17_AtomicRedeem ==
  [][(reply'.op = "redeem" /\ reply'.msg = "redeemed")
       => tickets[reply'.ticket].usedAt = 0]_vars

(***************************************************************************)
(* C18.  A used ticket is terminal: once used_at is set, used_at and       *)
(* used_by of the ticket are the same in every later state.                *)
(***************************************************************************)
C18_UsedIsTerminal ==
  [][\A n \in 1..Len(tickets) :
       tickets[n].usedAt # 0 =>
         /\ tickets'[n].usedAt = tickets[n].usedAt
         /\ tickets'[n].usedBy = tickets[n].usedBy]_vars

(***************************************************************************)
(* C19.  One ticket per unit: while no request is under way, every paid    *)
(* order has exactly `quantity` tickets, each of the order's content and   *)
(* tier; and the answer of a successful manual cart checkout lists as many *)
(* tickets as its lines' quantities add up to.                             *)
(***************************************************************************)
C19_OneTicketPerUnit ==
  /\ AllIdle =>
       \A n \in 1..Len(orders) :
         orders[n].status = "paid" =>
           /\ TicketsOf(n) = orders[n].quantity
           /\ \A t \in 1..Len(tickets) :
                tickets[t].order = n =>
                  /\ tickets[t].content = orders[n].content
                  /\ tickets[t].ticketType = orders[n].ticketType
  /\ (reply.op = "cart" /\ reply.msg = "tickets") =>
       reply.tickets = SumSeq([i \in 1..Len(reply.orderIds) |->
                                 orders[reply.orderIds[i]].quantity])

(* A manual cart checkout of two lines answered with the eleven tickets of *)
(* its orders.                                                             *)
C19_Witness ==
  /\ reply.op = "cart" /\ reply.msg = "tickets"
  /\ Len(reply.orderIds) = 2
  /\ reply.tickets = MaxQty + 1
  /\ \A i \in 1..2 : TicketsOf(reply.orderIds[i]) = orders[reply.orderIds[i]].quantity

(***************************************************************************)
(* C20.  A collision of a generated code with a stored one does not stop   *)
(* issuance: once the request has ended, no paid order is left with fewer  *)
(* tickets than its quantity, or without its decrement.                    *)
(***************************************************************************)
C20_CollisionRetried ==
  AllIdle =>
    \A n \in 1..Len(orders) :
      orders[n].status = "paid" =>
        (TicketsOf(n) >= orders[n].quantity /\ decrements[n] >= 1)

(* A fulfilment went through although codes were already stored. *)
C20_Witness ==
  /\ AllIdle
  /\ Len(orders) = 2
  /\ \A n \in 1..2 : orders[n].status = "paid" /\ TicketsOf(n) = orders[n].quantity

(***************************************************************************)
(* C21.  An order group is created together with its child orders: when a  *)
(* cart checkout has been answered, with a success or with an error,       *)
(* either it created nothing, or its group exists with one order for each  *)
(* line of the cart.                                                       *)
(***************************************************************************)
C21_GroupAtomic ==
  reply.op = "cart" =>
    IF reply.groupId = 0 THEN ~reply.wrote
    ELSE Len(getOrdersByGroupId(reply.groupId)) = Len(reply.lines)

(***************************************************************************)
(* C22.  The capacity of a limited content is consistent: in every state,  *)
(* every content that is not unlimited has 0 <= availableTickets and       *)
(* availableTickets <= totalTickets, whatever contents the sellers         *)
(* created, whatever capacity fields they edited and whatever fulfilments  *)
(* decremented.                                                            *)
(***************************************************************************)
C22_CapacityConsistent ==
  \A c \in DOMAIN contents :
    ~contents[c].unlimited =>
      (0 <= contents[c].available /\ contents[c].available <= contents[c].total)

(* The quantity a cart line of quantity q is to be stored with. *)
Clamped(q) == IF q <= 0 THEN MinQty ELSE IF q >= MaxQty THEN MaxQty ELSE q

(***************************************************************************)
(* C23.  Every stored order has a quantity in 1..10.  A cart line with a   *)
(* known content and tier is priced with its quantity clamped into 1..10   *)
(* (0 or less becomes 1, more than 10 becomes 10), is not rejected on      *)
(* unlimited content, and its order is stored with the clamped quantity.   *)
(* A single purchase is taken up only with a quantity in 1..10, and one    *)
(* rejected for its quantity is answered 400 and has stored nothing.       *)
(***************************************************************************)
C23_QuantityRange ==
  /\ [](\A n \in 1..Len(orders) : orders[n].quantity \in MinQty..MaxQty)
  /\ []((reply.op = "purchase" /\ reply.msg \in {"invalid_quantity", "fields_required"})
          => (reply.code = 400 /\ ~reply.wrote))
  /\ []((reply.op = "purchase" /\ ~reply.wrote /\ reply.qty \notin MinQty..MaxQty)
          => reply.msg \in {"invalid_quantity", "fields_required"})
  /\ [][\A p \in Procs :
          /\ pc'[p] = "p_create" => loc'[p].qty \in MinQty..MaxQty
          /\ (pc[p] = "p_create" /\ pc'[p] # "p_create")
               => orders'[Len(orders')].quantity = loc[p].qty
          /\ (pc[p] = "c_validate" /\ loc'[p] # loc[p]) =>
               LET it == loc[p].cart[loc[p].i]
               IN  (it.contentId \in DOMAIN contents /\ it.ticketType \in Tiers
                      /\ contents[it.contentId].unlimited)
                     => /\ pc'[p] \in {"c_validate", "c_group"}
                        /\ loc'[p].lines[Len(loc'[p].lines)].quantity = Clamped(it.raw)
          /\ (pc[p] = "c_order" /\ Len(orders') > Len(orders))
               => orders'[Len(orders')].quantity = loc[p].lines[loc[p].k].quantity]_vars

(* A purchase of 11 tickets has been refused while the orders hold a cart   *)
(* line that was sent with 11 and is stored with 10.                       *)
C23_Witness ==
  /\ reply.op = "purchase" /\ reply.qty = MaxQty + 1 /\ reply.code = 400
  /\ \E n \in 1..Len(orders) : orders[n].group # 0 /\ orders[n].quantity = MaxQty
(* A verified delivery that calls for nothing: its event is not a completed *)
(* checkout, or its session id is on no order group and on no order.        *)
NothingCalledFor(r) ==
  /\ r.op = "webhook" /\ ~r.flaw
  /\ \/ r.event # "checkout.session.completed"
     \/ /\ getOrderGroupByStripeSession(r.sessionId) = {}
        /\ getOrderByStripeSession(r.sessionId) = {}

(***************************************************************************)
(* C24.  A verified event that is not "checkout.session.completed", or a   *)
(* completed checkout whose session id no order group and no order holds,  *)
(* is acknowledged with 200, and the request has changed no order, order   *)
(* group, ticket or content.                                               *)
(***************************************************************************)
C24_OtherEventsNoOp ==
  /\ [](NothingCalledFor(reply) => (reply.code = 200 /\ reply.msg = "received" /\ ~reply.wrote))
  /\ [][NothingCalledFor(reply') => UNCHANGED <<contents, order_groups, orders, tickets>>]_vars

(* An event of another type was acknowledged although it names the session *)
(* of an order that is still pending.                                       *)
C24_Witness ==
  /\ NothingCalledFor(reply) /\ reply.event = "charge.succeeded"
  /\ \E n \in getOrderByStripeSession(reply.sessionId) : orders[n].status = "pending"

(* Request p takes a step of a quote, or ends one. *)
QuoteStepped(p) ==
  \/ loc'[p].op = "quote" /\ loc'[p] # loc[p]
  \/ reply'.op = "quote" /\ reply'.proc = p /\ reply' # reply

(***************************************************************************)
(* C25.  The quote is read-only: no step of a quote, whether the quote     *)
(* ends with a breakdown or with an error, and whatever checkout is under  *)
(* way beside it, changes the order groups, orders, tickets, contents or   *)
(* settings.                                                               *)
(***************************************************************************)
C25_QuoteReadOnly ==
  [][(\E p \in Procs : QuoteStepped(p))
       => UNCHANGED <<contents, settings, order_groups, orders, tickets, sessions,
                      decrements>>]_vars

(* A quote of two lines was answered with its breakdown while a checkout    *)
(* was issuing tickets.                                                     *)
C25_Witness ==
  /\ reply.op = "quote" /\ reply.code = 200 /\ Len(reply.lines) = 2
  /\ pc["r1"] = "issue" /\ tickets # <<>>

(***************************************************************************)
(* C26.  A decrement that runs alone keeps the ledger: its SELECT changes  *)
(* no content, and for an unknown content id or an unlimited content no    *)
(* UPDATE follows; for a limited content the UPDATE sets availableTickets  *)
(* to max(0, availableTickets - quantity) and changes nothing else of the  *)
(* content and no other content.                                           *)
(***************************************************************************)
C26_DecrementLedger ==
  [][\A p \in Procs :
       /\ (pc[p] = "dec_read" /\ decrements' # decrements) =>
            LET c == orders[loc[p].orderIds[loc[p].k]].content
            IN  /\ contents' = contents
                /\ (pc'[p] = "dec_write") <=> (c \in DOMAIN contents /\ ~contents[c].unlimited)
       /\ (pc[p] = "dec_write" /\ pc'[p] # "dec_write") =>
            LET c == orders[loc[p].orderIds[loc[p].k]].content
                q == orders[loc[p].orderIds[loc[p].k]].quantity
                a == contents[c].available
            IN  /\ DOMAIN contents' = DOMAIN contents
                /\ contents'[c] = [contents[c] EXCEPT !.available = IF a - q > 0 THEN a - q ELSE 0]
                /\ \A x \in DOMAIN contents \ {c} : contents'[x] = contents[x]]_vars

(* The only decrement made so far left the limited content at 0: it started *)
(* below the order's quantity and was clamped.                              *)
C26_Witness ==
  /\ reply.op = "webhook" /\ reply.wrote
  /\ Len(orders) = 1 /\ decrements[1] = 1
  /\ orders[1].content \in DOMAIN contents
  /\ ~contents[orders[1].content].unlimited
  /\ contents[orders[1].content].available = 0

(***************************************************************************)
(* C27.  No decrement is lost: while no request is under way, a limited    *)
(* content stands at max(0, a - q), where a is the availableTickets it     *)
(* started with and q the total quantity of the decrements made for its    *)
(* orders, however the storage steps of the fulfilments were interleaved.  *)
(***************************************************************************)
C27_NoLostDecrement ==
  AllIdle =>
    \A c \in ContentIds :
      ~contents[c].unlimited =>
        contents[c].available = Max(0, InitAvailable - Decremented(c))


(* The quantities of the lines of ls that name content c, added up. *)
AskedOf(ls, c) ==
  SumSeq([n \in 1..Len(ls) |-> IF ls[n].contentId = c THEN ls[n].quantity ELSE 0])

(***************************************************************************)
(* C28.  Cart admission counts the lines of one content together: a cart   *)
(* checkout that has passed validation asks of every limited content, over *)
(* all its lines and tiers, no more than the content's availableTickets.   *)
(***************************************************************************)
C28_CartSumAdmission ==
  \A p \in Procs :
    pc[p] = "c_group" =>
      \A c \in ContentIds :
        ~contents[c].unlimited => AskedOf(loc[p].lines, c) <= contents[c].available


(* A cart as its lines name it: content, tier and clamped quantity. *)
CartOf(ls) ==
  [n \in 1..Len(ls) |-> <<ls[n].contentId, ls[n].ticketType, ls[n].quantity>>]

(* The cart a group's orders were created from. *)
CartOfGroup(g) ==
  [n \in 1..Len(getOrdersByGroupId(g)) |->
     <<orders[getOrdersByGroupId(g)[n]].content,
       orders[getOrdersByGroupId(g)[n]].ticketType,
       orders[getOrdersByGroupId(g)[n]].quantity>>]

(***************************************************************************)
(* C29.  The quote and the checkout agree: the breakdown a quote returns   *)
(* for a cart is, field by field, the breakdown stored on every order      *)
(* group that a completed checkout created from the same cart, and the     *)
(* breakdown a checkout returns is the one it stored.                      *)
(***************************************************************************)
C29_QuoteAgrees ==
  /\ (reply.op = "quote" /\ reply.code = 200) =>
       \A g \in 1..Len(order_groups) :
         (order_groups[g].status = "paid" /\ CartOfGroup(g) = CartOf(reply.lines))
           => reply.breakdown = <<StoredBreakdown(g)>>
  /\ (reply.op = "cart" /\ reply.msg = "tickets") =>
       reply.breakdown = <<StoredBreakdown(reply.groupId)>>

(* A quote of two lines was answered after a checkout of the same two lines *)
(* had stored its group.                                                    *)
C29_Witness ==
  /\ reply.op = "quote" /\ reply.code = 200 /\ Len(reply.lines) = 2
  /\ \E g \in 1..Len(order_groups) :
       /\ order_groups[g].status = "paid"
       /\ CartOfGroup(g) = CartOf(reply.lines)
       /\ order_groups[g].tax > 0


(* Request p handles a verified "checkout completed" event of a session in S. *)
ConfirmedBy(p, S) ==
  /\ loc[p].op = "webhook" /\ ~loc[p].flaw
  /\ loc[p].event = "checkout.session.completed"
  /\ loc[p].sessionId \in S

(* Request p is a checkout by another method than the gateway's. *)
OffGateway(p) == loc[p].op \in {"purchase", "cart"} /\ loc[p].method # "stripe"

(***************************************************************************)
(* C30.  No fulfilment without confirmed payment on the gateway path: a    *)
(* step that marks an order or an order group paid, stores a ticket of an  *)
(* order or decrements for it is a step of a verified "checkout completed" *)
(* event carrying the session id stored on that order or on its group, or  *)
(* a step of the order's own checkout by another method than 'stripe'.     *)
(***************************************************************************)
C30_PaidOnlyWhenConfirmed ==
  [][/\ \A n \in 1..Len(orders) :
          (\/ orders[n].status # "paid" /\ orders'[n].status = "paid"
           \/ \E t \in (Len(tickets) + 1)..Len(tickets') : tickets'[t].order = n
           \/ decrements'[n] > decrements[n])
            => \E p \in Procs :
                 /\ pc[p] # "idle"
                 /\ \/ ConfirmedBy(p, SessionOf(n))
                    \/ OffGateway(p) /\ \E i \in 1..Len(loc[p].orderIds) : loc[p].orderIds[i] = n
     /\ \A g \in 1..Len(order_groups) :
          (order_groups[g].status # "paid" /\ order_groups'[g].status = "paid")
            => \E p \in Procs :
                 /\ pc[p] # "idle"
                 /\ \/ ConfirmedBy(p, order_groups[g].session)
                    \/ OffGateway(p) /\ loc[p].groupId = g]_vars

(* A verified event with the session id of a gateway order was handled and *)
(* the order is paid and has its tickets.                                   *)
C30_Witness ==
  /\ reply.op = "webhook" /\ reply.wrote /\ ~reply.flaw
  /\ \E n \in 1..Len(orders) :
       /\ reply.sessionId \in SessionOf(n)
       /\ orders[n].status = "paid"
       /\ TicketsOf(n) = orders[n].quantity

=============================================================================
